---- MODULE Spec2Model ----
(***************************************************************************)
(* Model of xun/functions/xun_typing.py: the TypeDeducer visitor that      *)
(* infers a coarse type for every expression of a xun function body,       *)
(* records variable types in var_type_map / local_var_type_map and raises  *)
(* on illegal uses of xun function results.                                *)
(*                                                                         *)
(* An ast node is a record [k, id, elts, targets, generators]:             *)
(*   Constant                                                              *)
(*   Name       id                                                         *)
(*   Attribute  elts = <<value>>                                           *)
(*   Call       elts = <<func>> \o args                                    *)
(*   BinOp      elts = <<left, right>>                                     *)
(*   BoolOp     elts = values          UnaryOp  elts = <<operand>>         *)
(*   Tuple, Set elts                                                       *)
(*   ListComp   elts = <<elt>>, generators = << [target, iter], ... >>     *)
(*   Assign     elts = <<value>>, targets                                  *)
(* visit_IfExp and visit_Dict are outside the model: their results are     *)
(* typing.Union objects and fresh dict objects, which no claim is about.   *)
(*                                                                         *)
(* A type value is a record [k, args]: typing.Any, the XunType singleton,  *)
(* Python's None (what a handler whose body is `pass` returns), the class  *)
(* NoneType (what typing.Tuple turns None into) and typing.Tuple[...].     *)
(* These objects are singletons or cached by typing, so Python's `is` on   *)
(* them is equality of the records.                                        *)
(***************************************************************************)
EXTENDS Integers, Sequences, FiniteSets

VARIABLES
    known_xun_functions,   \* self.known_xun_functions
    var_type_map,          \* self.var_type_map
    local_var_type_map,    \* self.local_var_type_map
    pc,                    \* "idle", "generators", "elt" or "failed"
    node,                  \* the node handed to visit() last
    result,                \* what that visit() returned
    exc,                   \* the exception it raised, or "none"
    mm,                    \* visit_ListComp: the mutation in progress
    gi,                    \* visit_ListComp: index of the next generator
    nvisits                \* number of visit() calls made by the driver

vars == <<known_xun_functions, var_type_map, local_var_type_map, pc, node,
          result, exc, mm, gi, nvisits>>

\* Number of nodes the driver hands to visit() in one run.
MaxStmts == 3

-----------------------------------------------------------------------------
(* Type values *)

T(k, args) == [k |-> k, args |-> args]

Any == T("Any", <<>>)

XunType == T("XunType", <<>>)

None == T("None", <<>>)

NoneType == T("NoneType", <<>>)

\* typing.Tuple.__getitem__(params): None among the parameters becomes NoneType.
TypingTuple(params) ==
    T("Tuple", [i \in DOMAIN params |->
                    IF params[i] = None THEN NoneType ELSE params[i]])

\* isinstance(t, typing.Tuple): true of instances of the builtin tuple only;
\* no value the visitor infers is one.
IsInstanceTypingTuple(t) == t.k = "tuple"

\* hasattr(t, '__origin__') and t.__origin__ is tuple
HasTupleOrigin(t) == t.k = "Tuple"

-----------------------------------------------------------------------------
(* frozenmap *)

frozenmap == [n \in {} |-> Any]

MapSet(m, key, value) ==
    [n \in DOMAIN m \cup {key} |-> IF n = key THEN value ELSE m[n]]

-----------------------------------------------------------------------------
(* Nodes *)

N(k, id, elts, targets, generators) ==
    [k |-> k, id |-> id, elts |-> elts, targets |-> targets,
     generators |-> generators]

Constant == N("Constant", "", <<>>, <<>>, <<>>)

Name(id) == N("Name", id, <<>>, <<>>, <<>>)

Attribute(value) == N("Attribute", "", <<value>>, <<>>, <<>>)

Call(func, args) == N("Call", "", <<func>> \o args, <<>>, <<>>)

BinOp(left, right) == N("BinOp", "", <<left, right>>, <<>>, <<>>)

BoolOp(values) == N("BoolOp", "", values, <<>>, <<>>)

UnaryOp(operand) == N("UnaryOp", "", <<operand>>, <<>>, <<>>)

TupleN(elts) == N("Tuple", "", elts, <<>>, <<>>)

SetN(elts) == N("Set", "", elts, <<>>, <<>>)

Comprehension(target, iter) == [target |-> target, iter |-> iter]

ListComp(elt, generators) == N("ListComp", "", <<elt>>, <<>>, generators)

Assign(targets, value) == N("Assign", "", <<value>>, targets, <<>>)

-----------------------------------------------------------------------------
(* util.py: the destructuring indexer.  Index paths are 1-based here.       *)

SingleShape == [leaf |-> TRUE, sub |-> <<>>]

RECURSIVE assignment_target_shape(_)
assignment_target_shape(target) ==
    IF target.k = "Name"
    THEN SingleShape
    ELSE [leaf |-> FALSE,
          sub |-> [i \in DOMAIN target.elts |->
                       assignment_target_shape(target.elts[i])]]

RECURSIVE ConcatAll(_)
ConcatAll(seqs) ==
    IF seqs = <<>> THEN <<>> ELSE Head(seqs) \o ConcatAll(Tail(seqs))

RECURSIVE indices_from_shape(_)
indices_from_shape(shape) ==
    IF shape.leaf
    THEN << <<>> >>
    ELSE ConcatAll([i \in DOMAIN shape.sub |->
             LET below == indices_from_shape(shape.sub[i])
             IN  [j \in DOMAIN below |-> <<i>> \o below[j]]])

RECURSIVE flatten_assignment_targets(_)
flatten_assignment_targets(target) ==
    IF target.k = "Name"
    THEN <<target>>
    ELSE ConcatAll([i \in DOMAIN target.elts |->
                        flatten_assignment_targets(target.elts[i])])

-----------------------------------------------------------------------------
(* The visitor.  self is [known_xun_functions, var_type_map,                *)
(* local_var_type_map]; a handler yields [self, ret, exc].  The two         *)
(* XunSyntaxError raise sites are told apart by name:                       *)
(*   "IllegalTaskResultUse" (visit_BinOp), "HeterogeneousSet" (visit_Set).  *)

Return(self, t) == [self |-> self, ret |-> t, exc |-> "none"]

Raise(self, e) == [self |-> self, ret |-> None, exc |-> e]

\* for i in index: target_type = target_type.__args__[i]
RECURSIVE GetArgsPath(_, _)
GetArgsPath(target_type, index) ==
    IF index = <<>> THEN [ret |-> target_type, exc |-> "none"]
    ELSE IF target_type.k # "Tuple"
    THEN [ret |-> None, exc |-> "AttributeError"]
    ELSE IF Head(index) > Len(target_type.args)
    THEN [ret |-> None, exc |-> "IndexError"]
    ELSE GetArgsPath(target_type.args[Head(index)], Tail(index))

RECURSIVE Visit(_, _)
RECURSIVE VisitEach(_, _, _)

\* The generator of visit_Tuple after self.visit(elt) gave r for Head(nodes).
EachNext(nodes, rets, r) ==
    IF r.exc # "none"
    THEN [self |-> r.self, rets |-> rets, exc |-> r.exc]
    ELSE VisitEach(Tail(nodes), r.self, Append(rets, r.ret))

\* self.visit(e) for each e of nodes, in order; stops at the first exception.
VisitEach(nodes, self, rets) ==
    IF nodes = <<>> THEN [self |-> self, rets |-> rets, exc |-> "none"]
    ELSE EachNext(nodes, rets, Visit(Head(nodes), self))

VisitConstant(n, self) == Return(self, Any)

\* visit_Name with the two lookups in the other order.
VisitName_LocalFirst(n, self) ==
    IF n.id \in DOMAIN self.local_var_type_map
    THEN Return(self, self.local_var_type_map[n.id])
    ELSE IF n.id \in DOMAIN self.var_type_map
    THEN Return(self, self.var_type_map[n.id])
    ELSE Return(self, Any)

VisitName(n, self) ==
    IF n.id \in DOMAIN self.var_type_map
    THEN Return(self, self.var_type_map[n.id])
    ELSE IF n.id \in DOMAIN self.local_var_type_map
    THEN Return(self, self.local_var_type_map[n.id])
    ELSE Return(self, Any)

VisitAttribute(n, self) == Return(self, None)

VisitCall(n, self) ==
    IF n.elts[1].k = "Name" /\ n.elts[1].id \in self.known_xun_functions
    THEN Return(self, XunType)
    ELSE Return(self, Any)

VisitBoolOp(n, self) == Return(self, None)

VisitUnaryOp(n, self) == Return(self, None)

\* The check of visit_BinOp with the right operand forgotten.
BinOpCheck_LeftOnly(left, right) ==
    IF right.exc # "none" THEN right
    ELSE IF left.ret = XunType
    THEN Raise(right.self, "IllegalTaskResultUse")
    ELSE Return(right.self, Any)

\* visit_BinOp once both operands are visited: left and right are the outcomes.
BinOpCheck(left, right) ==
    IF right.exc # "none" THEN right
    ELSE IF left.ret = XunType \/ right.ret = XunType
    THEN Raise(right.self, "IllegalTaskResultUse")
    ELSE Return(right.self, Any)

\* visit_BinOp once the left operand is visited.
BinOpRight(n, left) ==
    IF left.exc # "none" THEN left
    ELSE BinOpCheck(left, Visit(n.elts[2], left.self))

VisitBinOp(n, self) == BinOpRight(n, Visit(n.elts[1], self))

\* visit_Tuple once the elements are visited.
TupleOf(r) ==
    IF r.exc # "none" THEN Raise(r.self, r.exc)
    ELSE Return(r.self, TypingTuple(r.rets))

VisitTuple(n, self) == TupleOf(VisitEach(n.elts, self, <<>>))

RECURSIVE SetLoop(_, _, _)

\* visit_Set with the comparison forgotten.
SetCompare_Never(elts, set_type, e) ==
    IF e.exc # "none" THEN e
    ELSE SetLoop(Tail(elts), e.self, set_type)

\* The loop of visit_Set once Head(elts) is visited with outcome e.
SetCompare(elts, set_type, e) ==
    IF e.exc # "none" THEN e
    ELSE IF e.ret # set_type
    THEN Raise(e.self, "HeterogeneousSet")
    ELSE SetLoop(Tail(elts), e.self, set_type)

\* The loop of visit_Set over the elements still to compare.
SetLoop(elts, self, set_type) ==
    IF elts = <<>> THEN Return(self, set_type)
    ELSE SetCompare(elts, set_type, Visit(Head(elts), self))

\* visit_Set once the first element is visited.
SetFirst(n, first) ==
    IF first.exc # "none" THEN first
    ELSE SetLoop(n.elts, first.self, first.ret)

VisitSet(n, self) == SetFirst(n, Visit(n.elts[1], self))

RECURSIVE ListCompBind(_, _, _, _)

\* mm.set(target.id, target_type), or the exception indexing __args__ raised.
ListCompSet(indices, flatten_targets, iter_types, m, target_type) ==
    IF target_type.exc # "none"
    THEN [mm |-> m, exc |-> target_type.exc]
    ELSE ListCompBind(Tail(indices), Tail(flatten_targets), iter_types,
                      MapSet(m, Head(flatten_targets).id, target_type.ret))

\* visit_ListComp, the inner loop over zip(indices, flatten_targets).
ListCompBind(indices, flatten_targets, iter_types, m) ==
    IF indices = <<>> \/ flatten_targets = <<>>
    THEN [mm |-> m, exc |-> "none"]
    ELSE ListCompSet(indices, flatten_targets, iter_types, m,
                     IF HasTupleOrigin(iter_types)
                     THEN GetArgsPath(iter_types, Head(indices))
                     ELSE [ret |-> iter_types, exc |-> "none"])

\* The outcome of one loop pass: the visitor, the mutation and the exception.
GeneratorDone(self, b) == [self |-> self, mm |-> b.mm, exc |-> b.exc]

\* The outcome of a loop pass that registered its targets in
\* self.local_var_type_map at once.
GeneratorInstalled(self, b) ==
    [self |-> [self EXCEPT !.local_var_type_map = b.mm], mm |-> b.mm, exc |-> b.exc]

\* The loop pass, registering the targets in self.local_var_type_map at once.
ListCompTarget_Installs(generator, m, it) ==
    IF it.exc # "none" THEN [self |-> it.self, mm |-> m, exc |-> it.exc]
    ELSE IF it.ret = None THEN [self |-> it.self, mm |-> m, exc |-> "none"]
    ELSE IF assignment_target_shape(generator.target) = SingleShape
    THEN GeneratorInstalled(it.self,
             [mm |-> MapSet(m, generator.target.id, it.ret), exc |-> "none"])
    ELSE GeneratorInstalled(it.self,
             ListCompBind(indices_from_shape(assignment_target_shape(generator.target)),
                          flatten_assignment_targets(generator.target), it.ret, m))

\* One pass of the loop over node.generators once generator.iter is visited
\* with outcome it.
ListCompTarget(generator, m, it) ==
    IF it.exc # "none" THEN [self |-> it.self, mm |-> m, exc |-> it.exc]
    ELSE IF it.ret = None THEN [self |-> it.self, mm |-> m, exc |-> "none"]
    ELSE IF assignment_target_shape(generator.target) = SingleShape
    THEN [self |-> it.self, mm |-> MapSet(m, generator.target.id, it.ret),
          exc |-> "none"]
    ELSE GeneratorDone(it.self,
             ListCompBind(indices_from_shape(assignment_target_shape(generator.target)),
                          flatten_assignment_targets(generator.target), it.ret, m))

\* visit_ListComp, one pass of the loop over node.generators.
ListCompGenerator(generator, self, m) ==
    ListCompTarget(generator, m, Visit(generator.iter, self))

RECURSIVE ListCompGenerators(_, _, _)

GeneratorsNext(generators, g) ==
    IF g.exc # "none" THEN g
    ELSE ListCompGenerators(Tail(generators), g.self, g.mm)

\* visit_ListComp, the loop over node.generators.
ListCompGenerators(generators, self, m) ==
    IF generators = <<>> THEN [self |-> self, mm |-> m, exc |-> "none"]
    ELSE GeneratorsNext(generators, ListCompGenerator(Head(generators), self, m))

\* visit_ListComp once the element is visited with outcome r: if that returned,
\* self.local_var_type_map is replaced by an empty map.
ListCompDiscard(r) ==
    IF r.exc # "none" THEN r
    ELSE Return([r.self EXCEPT !.local_var_type_map = frozenmap], r.ret)

\* visit_ListComp once self.local_var_type_map is installed.
ListCompElt(n, self) == ListCompDiscard(Visit(n.elts[1], self))

\* visit_ListComp once the generators are processed with outcome g.
ListCompInstalled(n, g) ==
    IF g.exc # "none" THEN Raise(g.self, g.exc)
    ELSE ListCompElt(n, [g.self EXCEPT !.local_var_type_map = g.mm])

VisitListComp(n, self) ==
    ListCompInstalled(n, ListCompGenerators(n.generators, self, self.var_type_map))

RECURSIVE AssignBind(_, _, _, _)

\* mm.set(target.id, target_type), or the exception indexing __args__ raised.
AssignSet(indices, flatten_targets, value_type, m, target_type) ==
    IF target_type.exc # "none"
    THEN [mm |-> m, exc |-> target_type.exc]
    ELSE AssignBind(Tail(indices), Tail(flatten_targets), value_type,
                    MapSet(m, Head(flatten_targets).id, target_type.ret))

\* visit_Assign, the loop over zip(indices, flatten_targets).
AssignBind(indices, flatten_targets, value_type, m) ==
    IF indices = <<>> \/ flatten_targets = <<>>
    THEN [mm |-> m, exc |-> "none"]
    ELSE AssignSet(indices, flatten_targets, value_type, m,
                   IF IsInstanceTypingTuple(value_type)
                   THEN GetArgsPath(value_type, Head(indices))
                   ELSE [ret |-> value_type, exc |-> "none"])

\* self.var_type_map = mm.finish(); return value_type
AssignCommit(value, b) ==
    IF b.exc # "none" THEN Raise(value.self, b.exc)
    ELSE Return([value.self EXCEPT !.var_type_map = b.mm], value.ret)

\* visit_Assign binding the target to None in self.var_type_map as soon as it
\* has its name, before it looks at the outcome of the value.
AssignTarget_BindsEarly(target, value) ==
    IF value.exc # "none"
    THEN Raise([value.self EXCEPT !.var_type_map =
                    AssignBind(indices_from_shape(assignment_target_shape(target)),
                               flatten_assignment_targets(target), None,
                               value.self.var_type_map).mm], value.exc)
    ELSE AssignCommit(value,
             AssignBind(indices_from_shape(assignment_target_shape(target)),
                        flatten_assignment_targets(target), value.ret,
                        value.self.var_type_map))

\* visit_Assign once node.value is visited with outcome value.
AssignTarget(target, value) ==
    IF value.exc # "none" THEN value
    ELSE IF assignment_target_shape(target) = SingleShape
    THEN Return([value.self EXCEPT !.var_type_map =
                     MapSet(@, target.id, value.ret)], value.ret)
    ELSE AssignCommit(value,
             AssignBind(indices_from_shape(assignment_target_shape(target)),
                        flatten_assignment_targets(target), value.ret,
                        value.self.var_type_map))

VisitAssign(n, self) ==
    IF Len(n.targets) > 1 THEN Raise(self, "SyntaxError")
    ELSE AssignTarget(n.targets[1], Visit(n.elts[1], self))

Visit(n, self) ==
    CASE n.k = "Constant"  -> VisitConstant(n, self)
      [] n.k = "Name"      -> VisitName(n, self)
      [] n.k = "Attribute" -> VisitAttribute(n, self)
      [] n.k = "Call"      -> VisitCall(n, self)
      [] n.k = "BoolOp"    -> VisitBoolOp(n, self)
      [] n.k = "UnaryOp"   -> VisitUnaryOp(n, self)
      [] n.k = "BinOp"     -> VisitBinOp(n, self)
      [] n.k = "Tuple"     -> VisitTuple(n, self)
      [] n.k = "Set"       -> VisitSet(n, self)
      [] n.k = "ListComp"  -> VisitListComp(n, self)
      [] n.k = "Assign"    -> VisitAssign(n, self)

-----------------------------------------------------------------------------
(* The nodes the driver hands to visit().  f is always a known xun function, *)
(* g is one in some runs; x, y, a, b, c, i, k are variables of the body.     *)

CallF == Call(Name("f"), <<>>)

CallG == Call(Name("g"), <<>>)

FPlusOne == BinOp(CallF, Constant)

PairTarget == TupleN(<<Name("a"), Name("b")>>)

NestedTarget == TupleN(<<Name("a"), TupleN(<<Name("b"), Name("c")>>)>>)

TripleTarget == TupleN(<<Name("a"), Name("b"), Name("c")>>)

ConstantNodes == {Constant}

NameNodes == {Name(v) : v \in {"x", "y", "a", "b", "c", "i", "k"}}

AttributeNodes == {Attribute(Name("x")), Attribute(FPlusOne)}

CallNodes ==
    {CallF, CallG, Call(Name("f"), <<Constant>>), Call(Attribute(Name("f")), <<>>),
     Call(Name("g"), <<FPlusOne>>)}

Operands ==
    {Constant, CallF, Name("x"), Name("b"), TupleN(<<Constant, CallF>>),
     UnaryOp(Name("x")), FPlusOne, SetN(<<Constant, CallF>>)}

BinOpNodes == {BinOp(l, r) : l \in Operands, r \in Operands}

BoolOpNodes == {BoolOp(<<Name("x"), o>>) : o \in {Constant, CallF, FPlusOne}}

UnaryOpNodes == {UnaryOp(o) : o \in {Constant, Name("x"), CallF, FPlusOne}}

TupleElts ==
    {Constant, CallF, Name("x"), BoolOp(<<Name("x"), Constant>>),
     BinOp(Name("x"), Constant), TupleN(<<Constant, CallF>>)}

TupleNodes ==
    {TupleN(<<l, r>>) : l \in TupleElts, r \in TupleElts} \cup {TupleN(<<CallF>>)}

SetElts ==
    {Constant, CallF, Name("x"), TupleN(<<Constant, Constant>>),
     UnaryOp(Name("x")), BoolOp(<<Name("x"), Constant>>), FPlusOne}

SetNodes ==
    {SetN(<<l, r>>) : l \in SetElts, r \in SetElts}
        \cup {SetN(<<Constant, Constant, Constant>>), SetN(<<Constant, CallF, FPlusOne>>),
              SetN(<<Name("x")>>)}

Iterables ==
    {Name("x"), CallF, Constant, TupleN(<<Constant, CallF>>),
     TupleN(<<Constant, TupleN(<<CallF, Constant>>)>>), UnaryOp(Name("x")),
     FPlusOne}

ListCompNodes ==
    {ListComp(TupleN(<<Name("i"), Name("k")>>),
              <<Comprehension(Name("i"), xs), Comprehension(Name("k"), Name("i"))>>)
         : xs \in Iterables}
    \cup {ListComp(elt, <<Comprehension(Name("i"), xs)>>)
             : elt \in {Name("i"), BinOp(Name("i"), Constant)}, xs \in Iterables}
    \cup {ListComp(TupleN(<<Name("a"), Name("b"), Name("c")>>),
                   <<Comprehension(t, xs)>>)
             : t \in {PairTarget, NestedTarget, TripleTarget}, xs \in Iterables}
    \cup {ListComp(Name("x"), <<Comprehension(Name("x"), CallF)>>),
          ListComp(ListComp(Name("k"), <<Comprehension(Name("k"), Name("i"))>>),
                   <<Comprehension(Name("i"), CallF)>>),
          ListComp(TupleN(<<ListComp(Name("k"), <<Comprehension(Name("k"), Constant)>>),
                            Name("i")>>),
                   <<Comprehension(Name("i"), CallF)>>),
          ListComp(Name("i"),
                   <<Comprehension(Name("i"),
                        ListComp(BinOp(Name("k"), Constant),
                                 <<Comprehension(Name("k"), CallF)>>))>>)}

AssignNodes ==
    {Assign(<<Name("x")>>, v)
         : v \in {Constant, CallF, CallG, UnaryOp(Name("y")), FPlusOne,
                  UnaryOp(FPlusOne), TupleN(<<Name("y"), Constant>>)}}
    \cup {Assign(<<Name("y")>>, v)
             : v \in {Name("x"), BinOp(Name("x"), Constant),
                      ListComp(BinOp(Name("i"), Constant),
                               <<Comprehension(Name("i"), CallF)>>)}}
    \cup {Assign(<<PairTarget>>, v)
             : v \in {TupleN(<<Constant, CallF>>), CallF,
                      TupleN(<<Constant, SetN(<<Constant, CallF>>)>>)}}
    \cup {Assign(<<NestedTarget>>, v)
             : v \in {TupleN(<<Constant, TupleN(<<CallF, Constant>>)>>),
                      TupleN(<<Constant, Constant>>)}}
    \cup {Assign(<<TripleTarget>>, TupleN(<<Constant, Constant>>)),
          Assign(<<Name("x"), Name("y")>>, Constant),
          Assign(<<PairTarget, Name("x")>>, TupleN(<<Constant, CallF>>))}

NoNode == N("", "", <<>>, <<>>, <<>>)

-----------------------------------------------------------------------------
(* The driver and the visitor as a state machine *)

Self ==
    [known_xun_functions |-> known_xun_functions,
     var_type_map |-> var_type_map,
     local_var_type_map |-> local_var_type_map]

\* TypeDeducer.__init__
Init ==
    /\ known_xun_functions \in {{"f"}, {"f", "g"}}
    /\ var_type_map = frozenmap
    /\ local_var_type_map = frozenmap
    /\ pc = "idle"
    /\ node = NoNode
    /\ result = None
    /\ exc = "none"
    /\ mm = frozenmap
    /\ gi = 0
    /\ nvisits = 0

\* visit(n) ran to its return or to its exception with outcome r.
Finish(n, r) ==
    /\ var_type_map' = r.self.var_type_map
    /\ local_var_type_map' = r.self.local_var_type_map
    /\ node' = n
    /\ result' = r.ret
    /\ exc' = r.exc
    /\ pc' = IF r.exc = "none" THEN "idle" ELSE "failed"
    /\ mm' = frozenmap
    /\ gi' = 0
    /\ UNCHANGED known_xun_functions

CanVisit == pc = "idle" /\ nvisits < MaxStmts

visit_Assign ==
    /\ CanVisit
    /\ \E n \in AssignNodes : Finish(n, VisitAssign(n, Self))
    /\ nvisits' = nvisits + 1

visit_BoolOp ==
    /\ CanVisit
    /\ \E n \in BoolOpNodes : Finish(n, VisitBoolOp(n, Self))
    /\ nvisits' = nvisits + 1

visit_BinOp ==
    /\ CanVisit
    /\ \E n \in BinOpNodes : Finish(n, VisitBinOp(n, Self))
    /\ nvisits' = nvisits + 1

visit_UnaryOp ==
    /\ CanVisit
    /\ \E n \in UnaryOpNodes : Finish(n, VisitUnaryOp(n, Self))
    /\ nvisits' = nvisits + 1

visit_Set ==
    /\ CanVisit
    /\ \E n \in SetNodes : Finish(n, VisitSet(n, Self))
    /\ nvisits' = nvisits + 1

visit_Call ==
    /\ CanVisit
    /\ \E n \in CallNodes : Finish(n, VisitCall(n, Self))
    /\ nvisits' = nvisits + 1

visit_Constant ==
    /\ CanVisit
    /\ \E n \in ConstantNodes : Finish(n, VisitConstant(n, Self))
    /\ nvisits' = nvisits + 1

visit_Attribute ==
    /\ CanVisit
    /\ \E n \in AttributeNodes : Finish(n, VisitAttribute(n, Self))
    /\ nvisits' = nvisits + 1

visit_Name ==
    /\ CanVisit
    /\ \E n \in NameNodes : Finish(n, VisitName(n, Self))
    /\ nvisits' = nvisits + 1

visit_Tuple ==
    /\ CanVisit
    /\ \E n \in TupleNodes : Finish(n, VisitTuple(n, Self))
    /\ nvisits' = nvisits + 1

\* visit_ListComp is entered: mm = self.var_type_map.mutate()
visit_ListComp ==
    /\ CanVisit
    /\ \E n \in ListCompNodes : node' = n
    /\ mm' = var_type_map
    /\ gi' = 1
    /\ pc' = "generators"
    /\ result' = None
    /\ exc' = "none"
    /\ nvisits' = nvisits + 1
    /\ UNCHANGED <<known_xun_functions, var_type_map, local_var_type_map>>

\* The visitor after one loop pass with outcome g.
LoopPassed(g) ==
    /\ local_var_type_map' = g.self.local_var_type_map
    /\ exc' = g.exc
    /\ IF g.exc = "none"
       THEN mm' = g.mm /\ gi' = gi + 1 /\ pc' = "generators"
       ELSE mm' = frozenmap /\ gi' = 0 /\ pc' = "failed"

\* visit_ListComp: one pass of `for generator in node.generators`
ListCompLoop ==
    /\ pc = "generators"
    /\ gi <= Len(node.generators)
    /\ LoopPassed(ListCompGenerator(node.generators[gi], Self, mm))
    /\ UNCHANGED <<known_xun_functions, var_type_map, node, result, nvisits>>

\* visit_ListComp: local_var_type_map = mm.finish(); self.local_var_type_map = ...
ListCompInstall ==
    /\ pc = "generators"
    /\ gi > Len(node.generators)
    /\ local_var_type_map' = mm
    /\ pc' = "elt"
    /\ mm' = frozenmap
    /\ gi' = 0
    /\ UNCHANGED <<known_xun_functions, var_type_map, node, result, exc, nvisits>>

\* visit_ListComp: result = self.visit(node.elt); the local map is emptied; return
ListCompReturn ==
    /\ pc = "elt"
    /\ Finish(node, ListCompElt(node, Self))
    /\ UNCHANGED nvisits

Next ==
    \/ visit_Assign
    \/ visit_BoolOp
    \/ visit_BinOp
    \/ visit_UnaryOp
    \/ visit_Set
    \/ visit_Call
    \/ visit_Constant
    \/ visit_Attribute
    \/ visit_Name
    \/ visit_Tuple
    \/ visit_ListComp
    \/ ListCompLoop
    \/ ListCompInstall
    \/ ListCompReturn

Spec == Init /\ [][Next]_vars

-----------------------------------------------------------------------------
(* Vocabulary of the properties *)

Range(seq) == {seq[j] : j \in DOMAIN seq}

\* A visit() call of the driver has returned or raised.
Done == node # NoNode /\ pc \in {"idle", "failed"}

Returned == node # NoNode /\ pc = "idle"

\* The visitor as every visit() call of the driver finds it: the driver calls
\* only when no comprehension is active.
Pre == [Self EXCEPT !.local_var_type_map = frozenmap]

\* n and every node below it that belongs to an expression.
RECURSIVE SubNodes(_)
SubNodes(n) ==
    {n} \cup UNION {SubNodes(e) : e \in Range(n.elts)}
        \cup UNION {SubNodes(g.iter) : g \in Range(n.generators)}

IsTaskCall(n) ==
    n.k = "Call" /\ n.elts[1].k = "Name" /\ n.elts[1].id \in known_xun_functions

\* n is a deferred graph result: a call of a known task function, or a name
\* the outer environment binds to OpaqueTask.
IsDeferred(n) ==
    \/ IsTaskCall(n)
    \/ n.k = "Name" /\ n.id \in DOMAIN var_type_map /\ var_type_map[n.id] = XunType

Leaves(target) ==
    {flatten_assignment_targets(target)[j].id
         : j \in DOMAIN flatten_assignment_targets(target)}

IsDestructuring(target) == assignment_target_shape(target) # SingleShape

-----------------------------------------------------------------------------
(* C1: a binary operation whose operands both infer fails with              *)
(* IllegalTaskResultUse exactly when the left or the right operand infers  *)
(* OpaqueTask (XunType), in particular when that operand is a call of a    *)
(* known task function or a name bound to OpaqueTask, and z = f() + 1 is   *)
(* rejected; otherwise it returns Dynamic (typing.Any).                    *)
C1_BinOp ==
    /\ (Done /\ node.k = "BinOp") =>
          LET left == Visit(node.elts[1], Pre)
              right == Visit(node.elts[2], left.self)
          IN  (left.exc = "none" /\ right.exc = "none") =>
                /\ (IsDeferred(node.elts[1]) \/ IsDeferred(node.elts[2]))
                      => exc = "IllegalTaskResultUse"
                /\ IF left.ret = XunType \/ right.ret = XunType
                   THEN exc = "IllegalTaskResultUse" /\ pc = "failed"
                   ELSE exc = "none" /\ pc = "idle" /\ result = Any
    /\ (Done /\ node = Assign(<<Name("x")>>, FPlusOne))
          => exc = "IllegalTaskResultUse"

\* x = f() was processed, then x + 1 was rejected.
C1_Witness ==
    /\ node = BinOp(Name("x"), Constant)
    /\ var_type_map = MapSet(frozenmap, "x", XunType)
    /\ exc = "IllegalTaskResultUse"
    /\ pc = "failed"

(* C2: after a destructuring assignment whose right-hand side infers a      *)
(* Tuple of the target's shape, every leaf name is bound to the Tuple      *)
(* element at the leaf's index path: (a, b) = (1, f()) binds a to Dynamic  *)
(* and b to OpaqueTask.                                                    *)
C2_Destructure ==
    (Returned /\ node.k = "Assign" /\ Len(node.targets) = 1
        /\ IsDestructuring(node.targets[1]) /\ result.k = "Tuple") =>
      LET indices == indices_from_shape(assignment_target_shape(node.targets[1]))
          names == flatten_assignment_targets(node.targets[1])
      IN  (\A j \in DOMAIN indices : GetArgsPath(result, indices[j]).exc = "none")
            => \A j \in DOMAIN names :
                   /\ names[j].id \in DOMAIN var_type_map
                   /\ var_type_map[names[j].id] = GetArgsPath(result, indices[j]).ret

(* C4: every statement that contains, at any depth, a binary operation with *)
(* an operand that is a deferred graph result is rejected with             *)
(* IllegalTaskResultUse.                                                   *)
C4_Rejected ==
    (Done /\ \E b \in SubNodes(node) :
                 b.k = "BinOp" /\ (IsDeferred(b.elts[1]) \/ IsDeferred(b.elts[2])))
        => exc = "IllegalTaskResultUse"

(* C10: a boolean or unary operation infers Dynamic like a constant: it    *)
(* returns typing.Any, a name assigned one resolves to typing.Any, and it  *)
(* is no mismatch next to a constant in a set literal.                     *)
C10_Dynamic ==
    /\ (Returned /\ node.k \in {"BoolOp", "UnaryOp"})
          => result = VisitConstant(Constant, Pre).ret
    /\ (Returned /\ node = Assign(<<Name("x")>>, UnaryOp(Name("y"))))
          => VisitName(Name("x"), Self).ret = Any
    /\ (Done /\ node.k = "Set" /\ Len(node.elts) = 2
          /\ node.elts[1] = Constant /\ node.elts[2].k \in {"BoolOp", "UnaryOp"})
          => exc = "none"

\* The outcome of inferring each element of a set literal on its own.
EltTypes(n) == [j \in DOMAIN n.elts |-> Visit(n.elts[j], Pre)]

(* C5 as claimed: a set literal fails with HeterogeneousSet exactly when    *)
(* some element's inferred type differs from the first element's, and a    *)
(* set literal whose elements contain no task-function call does not fail. *)
C5_Original ==
    (Done /\ node.k = "Set") =>
      /\ (\A j \in DOMAIN node.elts : EltTypes(node)[j].exc = "none") =>
            (exc = "HeterogeneousSet" <=>
                \E j \in DOMAIN node.elts :
                    EltTypes(node)[j].ret # EltTypes(node)[1].ret)
      /\ (\A e \in SubNodes(node) : ~IsTaskCall(e)) => exc = "none"

(* C5 as amended: when every element of a set literal infers without       *)
(* error, visit_Set fails with HeterogeneousSet exactly when some          *)
(* element's inferred type differs from the first element's and otherwise  *)
(* returns that type; {1, f()} fails and a set literal all of whose        *)
(* elements are constants, such as {1, 2, 3}, does not fail.               *)
C5_Set ==
    (Done /\ node.k = "Set") =>
      /\ (\A j \in DOMAIN node.elts : EltTypes(node)[j].exc = "none") =>
            IF \E j \in DOMAIN node.elts :
                   EltTypes(node)[j].ret # EltTypes(node)[1].ret
            THEN exc = "HeterogeneousSet" /\ pc = "failed"
            ELSE exc = "none" /\ pc = "idle" /\ result = EltTypes(node)[1].ret
      /\ (\A j \in DOMAIN node.elts : node.elts[j] = Constant) => exc = "none"
      /\ node = SetN(<<Constant, CallF>>) => exc = "HeterogeneousSet"

\* {1, f()} was rejected.
C5_Witness ==
    /\ node = SetN(<<Constant, CallF>>)
    /\ exc = "HeterogeneousSet"
    /\ pc = "failed"

(* C8: binding a destructuring target never fails on a shape mismatch: a    *)
(* leaf whose index path leaves the Tuple structure of the value's type or *)
(* overruns an arity is bound to Dynamic, in an assignment and in a        *)
(* comprehension generator.                                                *)
C8_Graceful ==
    /\ exc \notin {"AttributeError", "IndexError"}
    /\ (Returned /\ node.k = "Assign" /\ Len(node.targets) = 1
          /\ IsDestructuring(node.targets[1])) =>
          LET indices == indices_from_shape(assignment_target_shape(node.targets[1]))
              names == flatten_assignment_targets(node.targets[1])
          IN  \A j \in DOMAIN names :
                  GetArgsPath(result, indices[j]).exc # "none"
                      => var_type_map[names[j].id] = Any
    /\ (pc = "elt" /\ Len(node.generators) = 1
          /\ IsDestructuring(node.generators[1].target)) =>
          LET target == node.generators[1].target
              indices == indices_from_shape(assignment_target_shape(target))
              names == flatten_assignment_targets(target)
              iter_types == Visit(node.generators[1].iter, Pre).ret
          IN  \A j \in DOMAIN names :
                  (iter_types # None /\ GetArgsPath(iter_types, indices[j]).exc # "none")
                      => local_var_type_map[names[j].id] = Any

(* C9: however a comprehension ends, by returning or by failing, the local  *)
(* environment is empty afterwards and the outer environment holds exactly *)
(* the bindings it held before.                                            *)
C9_Discarded ==
    [][(pc \in {"generators", "elt"} /\ pc' \in {"idle", "failed"})
          => (local_var_type_map' = frozenmap /\ var_type_map' = var_type_map)]_vars

\* The driver's visit() call of this step was of an Assign node and returned.
AssignReturned ==
    pc = "idle" /\ nvisits' = nvisits + 1 /\ node'.k = "Assign" /\ pc' = "idle"

(* C3: a successful single-name assignment x = e binds x in the outer       *)
(* environment to the type e inferred to and returns that type; the        *)
(* binding stays until an assignment to x is processed, every reference to *)
(* x infers it, and y = x after x = f() binds y to OpaqueTask.             *)
C3_SingleName ==
    [][/\ (AssignReturned /\ Len(node'.targets) = 1
            /\ ~IsDestructuring(node'.targets[1])) =>
             LET e == Visit(node'.elts[1], Self)
             IN  /\ node'.targets[1].id \in DOMAIN var_type_map'
                 /\ var_type_map'[node'.targets[1].id] = e.ret
                 /\ result' = e.ret
       /\ \A x \in DOMAIN var_type_map :
             \/ x \in DOMAIN var_type_map' /\ var_type_map'[x] = var_type_map[x]
             \/ /\ AssignReturned
                /\ \E t \in Range(node'.targets) : x \in Leaves(t)
       /\ \A x \in DOMAIN var_type_map' :
             VisitName(Name(x), Self').ret = var_type_map'[x]
       /\ (pc = "idle" /\ nvisits' = nvisits + 1 /\ node'.k = "Name"
            /\ node'.id \in DOMAIN var_type_map)
             => (pc' = "idle" /\ result' = var_type_map[node'.id])
       /\ (AssignReturned /\ node' = Assign(<<Name("y")>>, Name("x"))
            /\ "x" \in DOMAIN var_type_map /\ var_type_map["x"] = XunType)
             => var_type_map'["y"] = XunType
      ]_vars

\* x = f() and then y = x were processed.
C3_Witness ==
    /\ node = Assign(<<Name("y")>>, Name("x"))
    /\ pc = "idle"
    /\ var_type_map = MapSet(MapSet(frozenmap, "x", XunType), "y", XunType)
    /\ result = XunType

GeneratorTargets(n) == UNION {Leaves(g.target) : g \in Range(n.generators)}

\* [(i, k) for i in xs for k in i], with i and k unbound in the outer environment
IsPairComp(n) ==
    /\ n.k = "ListComp"
    /\ Len(n.generators) = 2
    /\ n.generators[1].target = Name("i")
    /\ n.generators[2] = Comprehension(Name("k"), Name("i"))
    /\ n.elts[1] = TupleN(<<Name("i"), Name("k")>>)
    /\ {"i", "k"} \cap DOMAIN var_type_map = {}

(* C6: the generator targets of a comprehension resolve to their           *)
(* comprehension-bound types only while the element expression is          *)
(* inferred: not while a generator's iterable is inferred (so k of         *)
(* `for k in i` is bound to Dynamic whatever i is), and after the          *)
(* comprehension has returned a target without outer binding resolves to   *)
(* Dynamic.                                                                *)
C6_Scope ==
    /\ pc = "generators" =>
          /\ local_var_type_map = frozenmap
          /\ \A id \in GeneratorTargets(node) :
                id \notin DOMAIN var_type_map
                    => VisitName(Name(id), Self).ret = Any
    /\ pc = "elt" =>
          /\ \A id \in GeneratorTargets(node) \cap DOMAIN local_var_type_map :
                id \notin DOMAIN var_type_map
                    => VisitName(Name(id), Self).ret = local_var_type_map[id]
          /\ IsPairComp(node) =>
                LET xs == Visit(node.generators[1].iter, Pre).ret
                IN  /\ local_var_type_map["k"] = Any
                    /\ xs # None => local_var_type_map["i"] = xs
    /\ (Returned /\ node.k = "ListComp") =>
          /\ local_var_type_map = frozenmap
          /\ \A id \in GeneratorTargets(node) :
                id \notin DOMAIN var_type_map
                    => VisitName(Name(id), Self).ret = Any
          /\ IsPairComp(node) =>
                LET xs == Visit(node.generators[1].iter, Pre).ret
                IN  result = TypingTuple(<<IF xs = None THEN Any ELSE xs, Any>>)
    /\ (Returned /\ node.k = "Name" /\ node.id \notin DOMAIN var_type_map)
          => result = Any

\* The element of [(i, k) for i in f() for k in i] is about to be inferred.
C6_Witness ==
    /\ pc = "elt"
    /\ node = ListComp(TupleN(<<Name("i"), Name("k")>>),
                       <<Comprehension(Name("i"), CallF),
                         Comprehension(Name("k"), Name("i"))>>)
    /\ local_var_type_map = MapSet(MapSet(var_type_map, "i", XunType), "k", Any)
    /\ "i" \notin DOMAIN var_type_map

(* C7: a step that fails leaves the outer environment exactly as the        *)
(* statements processed before left it: no binding is lost and the failing *)
(* statement commits none, not even some leaves of a destructuring target. *)
C7_OuterKept ==
    [][pc' = "failed" => var_type_map' = var_type_map]_vars

\* x = f() was processed, then (a, b) = (1, {1, f()}) failed.
C7_Witness ==
    /\ pc = "failed"
    /\ node = Assign(<<PairTarget>>, TupleN(<<Constant, SetN(<<Constant, CallF>>)>>))
    /\ exc = "HeterogeneousSet"
    /\ var_type_map = MapSet(frozenmap, "x", XunType)

====
